---- MODULE Spec2Model ----
(***************************************************************************)
(* Blogly (src/app.py): the field validator, the create / edit / delete    *)
(* logic of User, Post and Tag, and their HTML-form and JSON entrypoints,  *)
(* over the four tables user, post, tag and post_tag.                      *)
(*                                                                         *)
(* Modelling conventions                                                   *)
(*  - a Python str is a sequence of one-character strings;                 *)
(*  - Optional[T] is a sequence of length <= 1: None is <<>>, a value v is *)
(*    <<v>>;                                                               *)
(*  - an input mapping is a record over the keys the handlers read, each   *)
(*    key holding an Optional value: None when the key is absent (the      *)
(*    inputs carry no null values, so mapping.get(key) is None exactly     *)
(*    when key is not in the mapping);                                     *)
(*  - a handler works on the ORM session, a private copy of the database:  *)
(*    its writes reach the database at db.session.commit() and are         *)
(*    dropped when the request ends without one (an early return or an     *)
(*    exception);                                                          *)
(*  - datetime.utcnow() is the counter now, read once per request and      *)
(*    advanced by every request that reads it.                             *)
(***************************************************************************)
EXTENDS Integers, Sequences, FiniteSets, TLC

VARIABLES db, now, pc, last, inflight, chk

vars == <<db, now, pc, last, inflight, chk>>

(***************************************************************************)
(* Bounds                                                                  *)
(***************************************************************************)
MaxLen == 3
MaxUsers == 1
MaxPosts == 2
MaxTags == 2
MaxTime == 3

(***************************************************************************)
(* Strings                                                                 *)
(***************************************************************************)
Whitespace == {" ", "\t"}

Chars == Whitespace \cup {"a", "b"}

EmptyStr == <<>>

None == <<>>

Some(v) == <<v>>

(* The element of a one-element set: binds a value once it is computed.   *)
Only(S) == CHOOSE x \in S : TRUE

RECURSIVE lstrip(_)
lstrip(s) ==
    IF s # EmptyStr /\ Head(s) \in Whitespace THEN lstrip(Tail(s)) ELSE s

RECURSIVE rstrip(_)
rstrip(s) ==
    IF s # EmptyStr /\ s[Len(s)] \in Whitespace
    THEN rstrip(SubSeq(s, 1, Len(s) - 1))
    ELSE s

strip(s) == rstrip(lstrip(s))

(***************************************************************************)
(* Error strings                                                           *)
(***************************************************************************)
missing_parameter(key) == <<"missing parameter", key>>

requires_nonwhitespace_chars(key) == <<key, "must contain non-whitespace characters">>

invalid_tag_id(tag_id) == <<"Invalid tag ID", ToString(tag_id)>>

(***************************************************************************)
(* check_for_and_strip_strparam: the returned value and the error list     *)
(* after the call.                                                         *)
(***************************************************************************)
check_blank_accepted(mapping, key, errors, optional) ==
    LET rv == mapping[key] IN
    IF rv = None /\ ~optional
    THEN [rv |-> None, errors |-> Append(errors, missing_parameter(key))]
    ELSE IF rv # None
         THEN LET stripped == strip(rv[1]) IN
              IF stripped = EmptyStr /\ ~optional
              THEN [rv |-> None,
                    errors |-> Append(errors, requires_nonwhitespace_chars(key))]
              ELSE [rv |-> Some(stripped), errors |-> errors]
         ELSE [rv |-> None, errors |-> errors]

check_for_and_strip_strparam(mapping, key, errors, optional) ==
    LET rv == mapping[key] IN
    IF rv = None /\ ~optional
    THEN [rv |-> None, errors |-> Append(errors, missing_parameter(key))]
    ELSE IF rv # None
         THEN LET stripped == strip(rv[1]) IN
              IF stripped = EmptyStr
              THEN [rv |-> None,
                    errors |-> Append(errors, requires_nonwhitespace_chars(key))]
              ELSE [rv |-> Some(stripped), errors |-> errors]
         ELSE [rv |-> None, errors |-> errors]

(***************************************************************************)
(* The database: the four tables and the three id sequences.  user, post   *)
(* and tag map the ids of the rows present to the rows; post_tag is the    *)
(* set of association rows.                                                *)
(***************************************************************************)
DEFAULT_IMAGE_URL == <<"/static/default0.png">>

EmptyDb ==
    [user |-> << >>, post |-> << >>, tag |-> << >>, post_tag |-> {},
     user_seq |-> 0, post_seq |-> 0, tag_seq |-> 0]

Without(f, k) == [x \in DOMAIN f \ {k} |-> f[x]]

INVALID_USER_ID == <<"Invalid user ID">>

INVALID_POST_ID == <<"Invalid post ID">>

INVALID_TAG_ID == <<"Invalid tag ID">>

(* User(first_name, last_name, image_url): a None image_url is left to the *)
(* column default.                                                         *)
User(first_name, last_name, image_url) ==
    [first_name |-> first_name, last_name |-> last_name,
     image_url |-> IF image_url = None THEN DEFAULT_IMAGE_URL ELSE image_url[1]]

(* db.session.add(row) of a new row: the next id of the table's sequence.  *)
InsertUser(d, row) ==
    [d EXCEPT !.user_seq = @ + 1, !.user = (d.user_seq + 1) :> row @@ @]

InsertPost(d, row) ==
    [d EXCEPT !.post_seq = @ + 1, !.post = (d.post_seq + 1) :> row @@ @]

InsertTag(d, row) ==
    [d EXCEPT !.tag_seq = @ + 1, !.tag = (d.tag_seq + 1) :> row @@ @]

PostTag(post_id, tag_id) == [post_id |-> post_id, tag_id |-> tag_id]

(* What a call of the logic leaves: the committed database, the (num,      *)
(* value) pair it returns (value is the error list, or the new id), the    *)
(* number of commits and of utcnow() readings.  num 500 stands for an      *)
(* exception that leaves the handler.                                      *)
Outcome(d, num, errors, id, commits, ticks) ==
    [db |-> d, num |-> num, errors |-> errors, id |-> id,
     commits |-> commits, ticks |-> ticks]

(***************************************************************************)
(* Users                                                                   *)
(***************************************************************************)
new_user(d, data) ==
    LET c1 == check_for_and_strip_strparam(data, "first_name", <<>>, FALSE)
        c2 == check_for_and_strip_strparam(data, "last_name", c1.errors, FALSE)
        errors == c2.errors
        image_url ==
            IF data["image_url"] # None /\ strip(data["image_url"][1]) # EmptyStr
            THEN Some(strip(data["image_url"][1]))
            ELSE None
    IN  IF Len(errors) = 0
        THEN Outcome(InsertUser(d, User(c1.rv[1], c2.rv[1], image_url)),
                     200, <<>>, d.user_seq + 1, 1, 0)
        ELSE Outcome(d, 400, errors, 0, 0, 0)

(* edit_user up to its error check: the session after the three fields,   *)
(* the errors and the updated flag.                                        *)
edit_user_name(st0, data, key) ==
    Only(UNION {{[user    |-> IF c.rv # None /\ c.rv[1] # st.user[key]
                              THEN [st.user EXCEPT ![key] = c.rv[1]]
                              ELSE st.user,
                  errors  |-> c.errors,
                  updated |-> st.updated \/ (c.rv # None /\ c.rv[1] # st.user[key])]
                 : c \in {check_for_and_strip_strparam(data, key, st.errors, TRUE)}}
                : st \in {st0}})

edit_user_image_url(st0, data) ==
    Only(UNION {{LET image_url == IF c.rv = None THEN DEFAULT_IMAGE_URL ELSE c.rv[1]
                     w == /\ (c.rv = None \/ c.rv[1] # st.user.last_name)
                          /\ data["image_url"] # None
                          /\ image_url # st.user.last_name
                 IN  [user    |-> IF w THEN [st.user EXCEPT !.image_url = image_url]
                                  ELSE st.user,
                      errors  |-> c.errors,
                      updated |-> st.updated \/ w]
                 : c \in {check_for_and_strip_strparam(data, "image_url", st.errors, TRUE)}}
                : st \in {st0}})

edit_user_fields(d, user_id, data) ==
    LET st == edit_user_image_url(
                  edit_user_name(
                      edit_user_name([user |-> d.user[user_id], errors |-> <<>>,
                                      updated |-> FALSE],
                                     data, "first_name"),
                      data, "last_name"),
                  data)
    IN  Only({[session |-> [d EXCEPT !.user[user_id] = f.user], errors |-> f.errors,
               updated |-> f.updated] : f \in {st}})

edit_user_commits_before_check(d, user_id, data) ==
    IF user_id \notin DOMAIN d.user
    THEN Outcome(d, 404, <<INVALID_USER_ID>>, 0, 0, 0)
    ELSE LET f == edit_user_fields(d, user_id, data) IN
         IF f.updated /\ Len(f.errors) > 0
         THEN Outcome(f.session, 400, f.errors, 0, 1, 0)
         ELSE IF Len(f.errors) > 0
         THEN Outcome(d, 400, f.errors, 0, 0, 0)
         ELSE IF f.updated
              THEN Outcome(f.session, 200, f.errors, 0, 1, 0)
              ELSE Outcome(d, 200, f.errors, 0, 0, 0)

edit_user(d, user_id, data) ==
    IF user_id \notin DOMAIN d.user
    THEN Outcome(d, 404, <<INVALID_USER_ID>>, 0, 0, 0)
    ELSE LET f == edit_user_fields(d, user_id, data) IN
         IF Len(f.errors) > 0
         THEN Outcome(d, 400, f.errors, 0, 0, 0)
         ELSE IF f.updated
              THEN Outcome(f.session, 200, f.errors, 0, 1, 0)
              ELSE Outcome(d, 200, f.errors, 0, 0, 0)

(* The commit of a User's deletion fails while a post still refers to it.  *)
UserIsReferenced(d, user_id) == \E p \in DOMAIN d.post : d.post[p].user_id = user_id

delete_user(d, user_id) ==
    IF UserIsReferenced(d, user_id)
    THEN Outcome(d, 500, <<>>, 0, 0, 0)
    ELSE Outcome([d EXCEPT !.user = Without(@, user_id)], 200, <<>>, 0, 1, 0)

(***************************************************************************)
(* Posts                                                                   *)
(***************************************************************************)
(* The "Validate tag IDs" loop: one error appended for every listed id     *)
(* that Tag.query.get does not find.                                       *)
RECURSIVE validate_tag_ids_fail_fast(_, _, _)
validate_tag_ids_fail_fast(d, tags, errors) ==
    IF tags = <<>>
    THEN errors
    ELSE IF Head(tags) \notin DOMAIN d.tag
         THEN Append(errors, invalid_tag_id(Head(tags)))
         ELSE validate_tag_ids_fail_fast(d, Tail(tags), errors)

RECURSIVE validate_tag_ids(_, _, _)
validate_tag_ids(d, tags, errors) ==
    IF tags = <<>>
    THEN errors
    ELSE validate_tag_ids(d, Tail(tags),
             IF Head(tags) \notin DOMAIN d.tag
             THEN Append(errors, invalid_tag_id(Head(tags)))
             ELSE errors)

Post(title, content, created_at, updated_at, user_id) ==
    [title |-> title, content |-> content, created_at |-> created_at,
     updated_at |-> updated_at, user_id |-> user_id]

SeqSet(s) == {s[i] : i \in DOMAIN s}

(* The second half of new_post: one PostTag row added per listed tag.      *)
add_post_tags(d, post_id, tags) ==
    [d EXCEPT !.post_tag = @ \cup {PostTag(post_id, t) : t \in SeqSet(tags)}]

(* new_post up to its first commit: the database that commit leaves.       *)
new_post_row(d, t, user_id, title, content) ==
    InsertPost(d, Post(title, content, t, t, user_id))

new_post(d, t, user_id, data) ==
    IF user_id \notin DOMAIN d.user
    THEN Outcome(d, 404, <<INVALID_USER_ID>>, 0, 0, 0)
    ELSE
    LET c1 == check_for_and_strip_strparam(data, "title", <<>>, FALSE)
        c2 == check_for_and_strip_strparam(data, "content", c1.errors, FALSE)
        tags == IF data["tags"] # None THEN data["tags"][1] ELSE <<>>
        errors == validate_tag_ids(d, tags, c2.errors)
    IN  IF Len(errors) = 0
        THEN LET first == new_post_row(d, t, user_id, c1.rv[1], c2.rv[1])
             IN  Outcome(add_post_tags(first, d.post_seq + 1, tags),
                         200, <<>>, d.post_seq + 1, 2, 1)
        ELSE Outcome(d, 400, errors, 0, 0, 0)

(* PostTag.query.filter(PostTag.tag_id == tag_id and PostTag.post_id ==    *)
(* post.id): Python's `and` keeps its left operand when that operand is    *)
(* false, and a column comparison is false as a bool, so the filter is the *)
(* tag_id comparison alone.                                                *)
post_tag_filter(rows, tag_id, post_id) == {r \in rows : r.tag_id = tag_id}

(* The loop over tags that adds the associations not found.                *)
RECURSIVE add_missing_tags(_, _, _)
add_missing_tags(rows, tags, post_id) ==
    IF tags = <<>>
    THEN rows
    ELSE add_missing_tags(
             IF post_tag_filter(rows, Head(tags), post_id) = {}
             THEN rows \cup {PostTag(post_id, Head(tags))}
             ELSE rows,
             Tail(tags), post_id)

(* post.tags: the tags the post is associated with.                        *)
post_tags(rows, post_id) == {r.tag_id : r \in {x \in rows : x.post_id = post_id}}

(* The loop over post.tags that deletes, for every tag not listed, the     *)
(* .first() row of the filter: the query has no ORDER BY, so any row of    *)
(* the filter may be the first.  The result is every set of rows the loop  *)
(* can leave.                                                              *)
remove_unlisted_tags(rows, tags, post_id) ==
    LET gone == post_tags(rows, post_id) \ SeqSet(tags)
        firsts == {f \in [gone -> rows] :
                      \A g \in gone : f[g] \in post_tag_filter(rows, g, post_id)}
    IN  {rows \ {f[g] : g \in gone} : f \in firsts}

edit_post(d, t, post_id, data) ==
    IF post_id \notin DOMAIN d.post
    THEN {Outcome(d, 404, <<INVALID_POST_ID>>, 0, 0, 0)}
    ELSE
    LET p0 == d.post[post_id]
        c1 == check_for_and_strip_strparam(data, "title", <<>>, TRUE)
        p1 == IF c1.rv # None /\ c1.rv[1] # p0.title
              THEN [p0 EXCEPT !.title = c1.rv[1]] ELSE p0
        c2 == check_for_and_strip_strparam(data, "content", c1.errors, TRUE)
        p2 == IF c2.rv # None /\ c2.rv[1] # p1.content
              THEN [p1 EXCEPT !.content = c2.rv[1]] ELSE p1
        tags == IF data["tags"] # None THEN data["tags"][1] ELSE <<>>
        errors == validate_tag_ids(d, tags, c2.errors)
        p3 == [p2 EXCEPT !.updated_at = t]
        added == add_missing_tags(d.post_tag, tags, post_id)
    IN  IF Len(errors) = 0
        THEN {Outcome([d EXCEPT !.post[post_id] = p3, !.post_tag = rows],
                      200, errors, 0, 1, 1) :
                 rows \in remove_unlisted_tags(added, tags, post_id)}
        ELSE {Outcome(d, 400, errors, 0, 0, 0)}

delete_post(d, post_id) ==
    Outcome([d EXCEPT !.post_tag = {r \in @ : r.post_id # post_id},
                      !.post = Without(@, post_id)],
            200, <<>>, 0, 1, 0)

(***************************************************************************)
(* Tags                                                                    *)
(***************************************************************************)
Tag(name) == [name |-> name]

new_tag_inserts_unchecked(d, data) ==
    LET c1 == check_for_and_strip_strparam(data, "name", <<>>, FALSE)
        errors == c1.errors
    IN  IF Len(errors) = 0
        THEN Outcome(InsertTag(d, Tag(c1.rv[1])), 200, <<>>, d.tag_seq + 1, 1, 0)
        ELSE Outcome(InsertTag(d, Tag(EmptyStr)), 400, errors, 0, 1, 0)

new_tag(d, data) ==
    LET c1 == check_for_and_strip_strparam(data, "name", <<>>, FALSE)
        errors == c1.errors
    IN  IF Len(errors) = 0
        THEN Outcome(InsertTag(d, Tag(c1.rv[1])), 200, <<>>, d.tag_seq + 1, 1, 0)
        ELSE Outcome(d, 400, errors, 0, 0, 0)

(* With a valid name the handler reaches db.session.add(name): name is a   *)
(* str, not a mapped row, so the call raises before the commit and the     *)
(* assignment to tag.name is dropped with the session.                     *)
edit_tag(d, tag_id, data) ==
    IF tag_id \notin DOMAIN d.tag
    THEN Outcome(d, 404, <<INVALID_TAG_ID>>, 0, 0, 0)
    ELSE
    LET c1 == check_for_and_strip_strparam(data, "name", <<>>, FALSE)
        errors == c1.errors
    IN  IF Len(errors) = 0
        THEN Outcome(d, 500, <<>>, 0, 0, 0)
        ELSE Outcome(d, 400, errors, 0, 0, 0)

delete_tag_keeps_rows(d, tag_id) ==
    Outcome([d EXCEPT !.tag = Without(@, tag_id)], 200, <<>>, 0, 1, 0)

delete_tag(d, tag_id) ==
    Outcome([d EXCEPT !.post_tag = {r \in @ : r.tag_id # tag_id},
                      !.tag = Without(@, tag_id)],
            200, <<>>, 0, 1, 0)

(***************************************************************************)
(* Entrypoints.  What an entrypoint leaves: the committed database and the *)
(* class of its response: "success" (the JSON success envelope, or the     *)
(* redirect to the resource), "invalid" (status 400, or the errors flashed *)
(* and the redirect back to the form), "not_found" (404) and "error" (an   *)
(* exception left the handler).                                            *)
(***************************************************************************)
Reply(o, kind, errors) ==
    [db |-> o.db, kind |-> kind, errors |-> errors, id |-> o.id,
     commits |-> o.commits, ticks |-> o.ticks]

Raised(d) == Outcome(d, 500, <<>>, 0, 0, 0)

JsonError(o) ==
    Reply(o, CASE o.num = 400 -> "invalid" [] o.num = 404 -> "not_found"
               [] OTHER -> "error", o.errors)

new_user_form(d, data) ==
    LET o == new_user(d, data) IN
    IF o.num = 200 THEN Reply(o, "success", <<>>) ELSE Reply(o, "invalid", o.errors)

new_user_ajax(d, data) ==
    LET o == new_user(d, data) IN
    IF o.num # 200 THEN JsonError(o) ELSE Reply(o, "success", <<>>)

edit_user_ajax(d, user_id, data) ==
    LET o == edit_user(d, user_id, data) IN
    IF o.num = 200 THEN Reply(o, "success", <<>>) ELSE JsonError(o)

edit_user_form(d, user_id, data) ==
    LET o == edit_user(d, user_id, data) IN
    IF o.num = 200 THEN Reply(o, "success", <<>>)
    ELSE IF o.num = 404 THEN Reply(o, "not_found", <<>>)
    ELSE Reply(o, "invalid", o.errors)

delete_user_ajax(d, user_id) ==
    IF user_id \notin DOMAIN d.user
    THEN Reply(Outcome(d, 404, <<>>, 0, 0, 0), "not_found", <<INVALID_USER_ID>>)
    ELSE LET o == delete_user(d, user_id) IN
         IF o.num = 500 THEN JsonError(o) ELSE Reply(o, "success", <<>>)

delete_user_form(d, user_id) ==
    IF user_id \notin DOMAIN d.user
    THEN Reply(Outcome(d, 404, <<>>, 0, 0, 0), "not_found", <<>>)
    ELSE LET o == delete_user(d, user_id) IN
         IF o.num = 500 THEN JsonError(o) ELSE Reply(o, "success", <<>>)

(* The form entrypoints of a post build data["tags"] from the tag_<id>     *)
(* keys of the form, so the key is always there.                           *)
form_post_data(form) ==
    [title |-> form.title, content |-> form.content, tags |-> Some(form.tag_keys)]

new_post_form(d, t, user_id, form) ==
    LET o == new_post(d, t, user_id, form_post_data(form)) IN
    IF o.num = 404 THEN Reply(o, "not_found", <<>>)
    ELSE IF o.num = 200 THEN Reply(o, "success", <<>>)
    ELSE Reply(o, "invalid", o.errors)

new_post_ajax(d, t, user_id, data) ==
    LET o == new_post(d, t, user_id, data) IN
    IF o.num # 200 THEN JsonError(o) ELSE Reply(o, "success", <<>>)

edit_post_ajax(d, t, post_id, data) ==
    {IF o.num = 200 THEN Reply(o, "success", <<>>) ELSE JsonError(o) :
        o \in edit_post(d, t, post_id, data)}

edit_post_form(d, t, post_id, form) ==
    {IF o.num = 200 THEN Reply(o, "success", <<>>)
     ELSE IF o.num = 404 THEN Reply(o, "not_found", <<>>)
     ELSE Reply(o, "invalid", o.errors) :
        o \in edit_post(d, t, post_id, form_post_data(form))}

delete_post_ajax(d, post_id) ==
    IF post_id \notin DOMAIN d.post
    THEN Reply(Outcome(d, 404, <<>>, 0, 0, 0), "not_found", <<INVALID_POST_ID>>)
    ELSE Reply(delete_post(d, post_id), "success", <<>>)

delete_post_form(d, post_id) ==
    IF post_id \notin DOMAIN d.post
    THEN Reply(Outcome(d, 404, <<>>, 0, 0, 0), "not_found", <<>>)
    ELSE Reply(delete_post(d, post_id), "success", <<>>)

new_tag_form(d, data) ==
    LET o == new_tag(d, data) IN
    IF o.num = 200 THEN Reply(o, "success", <<>>) ELSE Reply(o, "invalid", o.errors)

new_tag_ajax(d, data) ==
    LET o == new_tag(d, data) IN
    IF o.num # 200 THEN JsonError(o) ELSE Reply(o, "success", <<>>)

edit_tag_ajax(d, tag_id, data) ==
    LET o == edit_tag(d, tag_id, data) IN
    IF o.num = 200 THEN Reply(o, "success", <<>>) ELSE JsonError(o)

(* edit_tag(post_id, request.form): post_id is no name of this function or *)
(* of the module, so the call raises NameError before edit_tag runs.       *)
edit_tag_form(d, tag_id, data) == JsonError(Raised(d))

(* `if post is None`: post is no name of this function or of the module,   *)
(* so the test raises NameError after the lookup, whatever it found.       *)
delete_tag_ajax(d, tag_id) == JsonError(Raised(d))

delete_tag_form(d, tag_id) ==
    IF tag_id \notin DOMAIN d.tag
    THEN Reply(Outcome(d, 404, <<>>, 0, 0, 0), "not_found", <<>>)
    ELSE Reply(delete_tag(d, tag_id), "success", <<>>)

(***************************************************************************)
(* Requests                                                                *)
(***************************************************************************)
UserIds == 1..MaxUsers

PostIds == 1..MaxPosts

TagIds == 1..MaxTags

(* A field of a create request: absent, blank, or a padded value.          *)
CreateValues == {None, Some(<<" ">>), Some(<<" ", "a">>)}

(* A field of an edit request: absent, blank, or a second padded value.    *)
EditValues == {None, Some(<<" ">>), Some(<<"b", "\t">>)}

RECURSIVE Ascending(_)
Ascending(S) ==
    IF S = {} THEN <<>>
    ELSE LET m == CHOOSE x \in S : \A y \in S : x <= y
         IN  <<m>> \o Ascending(S \ {m})

(* Tag id lists without repeats, in id order; an id that no tag holds yet, *)
(* or holds no more, is an invalid one.                                    *)
TagLists == {Ascending(S) : S \in SUBSET TagIds}

NoData == [none |-> None]

NewUserData ==
    [first_name : CreateValues, last_name : CreateValues, image_url : CreateValues]

EditUserData ==
    [first_name : EditValues, last_name : EditValues, image_url : CreateValues]

NewPostData ==
    [title : CreateValues, content : CreateValues,
     tags : {None} \cup {Some(l) : l \in TagLists}]

NewPostFormData ==
    [title : CreateValues, content : CreateValues, tag_keys : TagLists]

EditPostData ==
    [title : EditValues, content : EditValues,
     tags : {None} \cup {Some(l) : l \in TagLists}]

EditPostFormData ==
    [title : EditValues, content : EditValues, tag_keys : TagLists]

NewTagData == [name : CreateValues]

EditTagData == [name : EditValues]

(***************************************************************************)
(* The state machine: requests run one at a time.  A request is handled in *)
(* one step (pc "idle" to "done", last holding the request, the database   *)
(* before it and what it left) and answered in the next.                   *)
(***************************************************************************)
NoRequest ==
    [op |-> "none", id |-> 0, data |-> NoData, kind |-> "none", errors |-> <<>>,
     new_id |-> 0, commits |-> 0, pre |-> EmptyDb, at |-> 0]

NoCheck ==
    [called |-> FALSE, mapping |-> [name |-> None], key |-> "name",
     optional |-> FALSE, errors_in |-> <<>>, rv |-> None, errors |-> <<>>]

Init ==
    /\ db = EmptyDb
    /\ now = 0
    /\ pc = "idle"
    /\ last = NoRequest
    /\ inflight = None
    /\ chk = NoCheck

WithinBounds(r) ==
    /\ r.db.user_seq <= MaxUsers
    /\ r.db.post_seq <= MaxPosts
    /\ r.db.tag_seq <= MaxTags
    /\ now + r.ticks <= MaxTime

Idle == pc = "idle"

(* One request, start to finish: outcome is what the entrypoint returned   *)
(* and left in the database.                                               *)
Handle(op, id, data, outcome) ==
    \E r \in {outcome} :
        /\ WithinBounds(r)
        /\ db' = r.db
        /\ now' = now + r.ticks
        /\ pc' = "done"
        /\ last' = [op |-> op, id |-> id, data |-> data, kind |-> r.kind,
                    errors |-> r.errors, new_id |-> r.id, commits |-> r.commits,
                    pre |-> db, at |-> now]
        /\ UNCHANGED <<inflight, chk>>

Respond ==
    /\ pc = "done"
    /\ pc' = "idle"
    /\ last' = NoRequest
    /\ UNCHANGED <<db, now, inflight, chk>>

NewUserForm ==
    /\ Idle
    /\ \E data \in NewUserData : Handle("new_user_form", 0, data, new_user_form(db, data))

NewUserAjax ==
    /\ Idle
    /\ \E data \in NewUserData : Handle("new_user_ajax", 0, data, new_user_ajax(db, data))

EditUserAjax ==
    /\ Idle
    /\ \E id \in UserIds, data \in EditUserData :
        Handle("edit_user_ajax", id, data, edit_user_ajax(db, id, data))

EditUserForm ==
    /\ Idle
    /\ \E id \in UserIds, data \in EditUserData :
        Handle("edit_user_form", id, data, edit_user_form(db, id, data))

DeleteUserAjax ==
    /\ Idle
    /\ \E id \in UserIds : Handle("delete_user_ajax", id, NoData, delete_user_ajax(db, id))

DeleteUserForm ==
    /\ Idle
    /\ \E id \in UserIds : Handle("delete_user_form", id, NoData, delete_user_form(db, id))

NewPostForm ==
    /\ Idle
    /\ \E id \in UserIds, form \in NewPostFormData :
        Handle("new_post_form", id, form_post_data(form), new_post_form(db, now, id, form))

NewPostAjax ==
    /\ Idle
    /\ \E id \in UserIds, data \in NewPostData :
        Handle("new_post_ajax", id, data, new_post_ajax(db, now, id, data))

EditPostAjax ==
    /\ Idle
    /\ \E id \in PostIds, data \in EditPostData :
        \E r \in edit_post_ajax(db, now, id, data) :
            Handle("edit_post_ajax", id, data, r)

EditPostForm ==
    /\ Idle
    /\ \E id \in PostIds, form \in EditPostFormData :
        \E r \in edit_post_form(db, now, id, form) :
            Handle("edit_post_form", id, form_post_data(form), r)

DeletePostAjax ==
    /\ Idle
    /\ \E id \in PostIds : Handle("delete_post_ajax", id, NoData, delete_post_ajax(db, id))

DeletePostForm ==
    /\ Idle
    /\ \E id \in PostIds : Handle("delete_post_form", id, NoData, delete_post_form(db, id))

NewTagForm ==
    /\ Idle
    /\ \E data \in NewTagData : Handle("new_tag_form", 0, data, new_tag_form(db, data))

NewTagAjax ==
    /\ Idle
    /\ \E data \in NewTagData : Handle("new_tag_ajax", 0, data, new_tag_ajax(db, data))

EditTagAjax ==
    /\ Idle
    /\ \E id \in TagIds, data \in EditTagData :
        Handle("edit_tag_ajax", id, data, edit_tag_ajax(db, id, data))

EditTagForm ==
    /\ Idle
    /\ \E id \in TagIds, data \in EditTagData :
        Handle("edit_tag_form", id, data, edit_tag_form(db, id, data))

DeleteTagAjax ==
    /\ Idle
    /\ \E id \in TagIds : Handle("delete_tag_ajax", id, NoData, delete_tag_ajax(db, id))

DeleteTagForm ==
    /\ Idle
    /\ \E id \in TagIds : Handle("delete_tag_form", id, NoData, delete_tag_form(db, id))

Next ==
    \/ NewUserForm \/ NewUserAjax \/ EditUserAjax \/ EditUserForm
    \/ DeleteUserAjax \/ DeleteUserForm
    \/ NewPostForm \/ NewPostAjax \/ EditPostAjax \/ EditPostForm
    \/ DeletePostAjax \/ DeletePostForm
    \/ NewTagForm \/ NewTagAjax \/ EditTagAjax \/ EditTagForm
    \/ DeleteTagAjax \/ DeleteTagForm
    \/ Respond

Spec == Init /\ [][Next]_vars

(***************************************************************************)
(* The validator on its own: chk holds the arguments of one call of        *)
(* check_for_and_strip_strparam and, once called, what it returned and the *)
(* error list it left.                                                     *)
(***************************************************************************)
Strings == UNION {[1..n -> Chars] : n \in 0..MaxLen}

SomeErrors == {<<>>, <<missing_parameter("title")>>}

CheckInputs ==
    [called : {FALSE}, mapping : [name : {None} \cup {Some(s) : s \in Strings}],
     key : {"name"}, optional : BOOLEAN, errors_in : SomeErrors,
     rv : {None}, errors : {<<>>}]

InitStr ==
    /\ db = EmptyDb
    /\ now = 0
    /\ pc = "idle"
    /\ last = NoRequest
    /\ inflight = None
    /\ chk \in CheckInputs

CheckParam ==
    /\ ~chk.called
    /\ LET c == check_for_and_strip_strparam(chk.mapping, chk.key, chk.errors_in,
                                             chk.optional)
       IN  chk' = [chk EXCEPT !.called = TRUE, !.rv = c.rv, !.errors = c.errors]
    /\ UNCHANGED <<db, now, pc, last, inflight>>

NextStr == CheckParam

SpecStr == InitStr /\ [][NextStr]_vars

(***************************************************************************)
(* Requests running side by side.  Every handler but new_post commits at   *)
(* most once, so another request sees it whole; new_post commits the Post  *)
(* row and then, in a second transaction, its PostTag rows, and inflight   *)
(* holds a new_post between its two commits.                               *)
(***************************************************************************)
(* new_post from its first commit on: the PostTag rows and the second      *)
(* commit, which fails when a row refers to a post or tag deleted since.   *)
new_post_finish(d, post_id, tags) ==
    IF post_id \notin DOMAIN d.post \/ \E t \in SeqSet(tags) : t \notin DOMAIN d.tag
    THEN Outcome(d, 500, <<>>, 0, 1, 1)
    ELSE Outcome(add_post_tags(d, post_id, tags), 200, <<>>, post_id, 2, 1)

NewPostBegin ==
    /\ Idle
    /\ inflight = None
    /\ \E id \in UserIds, data \in NewPostData :
        LET o == new_post(db, now, id, data) IN
        IF o.num # 200
        THEN Handle("new_post_ajax", id, data, JsonError(o))
        ELSE /\ WithinBounds(Reply(o, "success", <<>>))
             /\ db' = new_post_row(db, now, id, strip(data["title"][1]),
                                   strip(data["content"][1]))
             /\ now' = now + 1
             /\ inflight' = Some([user_id |-> id, data |-> data, post_id |-> o.id,
                                  tags |-> IF data["tags"] # None
                                           THEN data["tags"][1] ELSE <<>>,
                                  pre |-> db, at |-> now])
             /\ UNCHANGED <<pc, last, chk>>

NewPostFinish ==
    /\ Idle
    /\ inflight # None
    /\ LET f == inflight[1]
           o == new_post_finish(db, f.post_id, f.tags)
       IN  /\ db' = o.db
           /\ pc' = "done"
           /\ last' = [op |-> "new_post_ajax", id |-> f.user_id, data |-> f.data,
                       kind |-> IF o.num = 200 THEN "success" ELSE "error",
                       errors |-> <<>>, new_id |-> o.id, commits |-> o.commits,
                       pre |-> f.pre, at |-> f.at]
           /\ inflight' = None
    /\ UNCHANGED <<now, chk>>

NextConc ==
    \/ NewPostBegin \/ NewPostFinish
    \/ NewUserAjax \/ NewTagAjax
    \/ DeleteUserAjax \/ DeletePostAjax \/ DeleteTagForm
    \/ Respond

SpecConc == Init /\ [][NextConc]_vars

(***************************************************************************)
(* Properties                                                              *)
(***************************************************************************)
Done(ops) == pc = "done" /\ last.op \in ops

Contains(seq, e) == \E i \in DOMAIN seq : seq[i] = e

Count(seq, e) == Cardinality({i \in DOMAIN seq : seq[i] = e})

(* A field value that is missing or has no non-whitespace character.       *)
Offending(v) == v = None \/ \A i \in DOMAIN v[1] : v[1][i] \in Whitespace

ErrorFor(v, key) ==
    IF v = None THEN missing_parameter(key) ELSE requires_nonwhitespace_chars(key)

RequiredKeys(op) ==
    CASE op \in {"new_user_form", "new_user_ajax"} -> {"first_name", "last_name"}
      [] op \in {"new_post_form", "new_post_ajax"} -> {"title", "content"}
      [] op \in {"new_tag_form", "new_tag_ajax"} -> {"name"}

CreateOps ==
    {"new_user_form", "new_user_ajax", "new_post_form", "new_post_ajax",
     "new_tag_form", "new_tag_ajax"}

HasOffendingField == \E k \in RequiredKeys(last.op) : Offending(last.data[k])

RejectedWithFieldErrors ==
    /\ db = last.pre
    /\ last.kind = "invalid"
    /\ \A k \in RequiredKeys(last.op) :
          Offending(last.data[k]) => Contains(last.errors, ErrorFor(last.data[k], k))

NewPostOps == {"new_post_form", "new_post_ajax"}

(* C1, as stated: a create request with a missing or all-whitespace        *)
(* required field inserts no row, is answered 400 and its error list holds *)
(* the error of every offending field, for every request.                  *)
C1_CreateRejectsOffending ==
    (Done(CreateOps) /\ HasOffendingField) => RejectedWithFieldErrors

(* C1, amended: the same for new_user and new_tag, and for new_post when   *)
(* its user_id names an existing user; new_post on a user that does not    *)
(* exist is answered 404 and inserts no row either.                        *)
C1_CreateRejectsOffendingForExistingUser ==
    (Done(CreateOps) /\ HasOffendingField) =>
        IF last.op \in NewPostOps /\ last.id \notin DOMAIN last.pre.user
        THEN db = last.pre /\ last.kind = "not_found"
        ELSE RejectedWithFieldErrors

C1_Witness ==
    /\ Done({"new_post_ajax"})
    /\ last.id \in DOMAIN last.pre.user
    /\ last.data["title"] = None
    /\ last.data["content"] = Some(<<" ">>)
    /\ last.kind = "invalid"
    /\ Len(last.errors) = 2

EditOps ==
    {"edit_user_form", "edit_user_ajax", "edit_post_form", "edit_post_ajax",
     "edit_tag_form", "edit_tag_ajax"}

(* C2: an edit answered with a validation failure leaves every table as it *)
(* was before the request.                                                 *)
C2_InvalidEditChangesNothing ==
    (Done(EditOps) /\ last.kind = "invalid") => db = last.pre

C2_Witness ==
    /\ Done({"edit_post_form", "edit_post_ajax"})
    /\ last.kind = "invalid"
    /\ last.data["title"] # None
    /\ ~Offending(last.data["title"])
    /\ strip(last.data["title"][1]) # last.pre.post[last.id].title
    /\ last.data["tags"] # None
    /\ \E i \in DOMAIN last.data["tags"][1] :
          last.data["tags"][1][i] \notin DOMAIN last.pre.tag
    /\ db = last.pre

EditPostOps == {"edit_post_form", "edit_post_ajax"}

ListedTags == IF last.data["tags"] = None THEN {} ELSE SeqSet(last.data["tags"][1])

(* C3: after a successful edit_post whose tag list holds only existing tag *)
(* ids, the tags associated with the post are exactly the listed ones.     *)
C3_EditPostTagsBecomeListed ==
    (Done(EditPostOps) /\ last.kind = "success" /\ ListedTags \subseteq DOMAIN last.pre.tag)
        => post_tags(db.post_tag, last.id) = ListedTags

NoRecognizedField ==
    CASE last.op \in {"edit_user_form", "edit_user_ajax"} ->
            \A k \in {"first_name", "last_name", "image_url"} : last.data[k] = None
      [] last.op \in {"edit_post_ajax"} ->
            \A k \in {"title", "content", "tags"} : last.data[k] = None
      [] last.op \in {"edit_tag_form", "edit_tag_ajax"} -> last.data["name"] = None
      [] OTHER -> FALSE

TargetExisted ==
    CASE last.op \in {"edit_user_form", "edit_user_ajax"} -> last.id \in DOMAIN last.pre.user
      [] last.op \in EditPostOps -> last.id \in DOMAIN last.pre.post
      [] last.op \in {"edit_tag_form", "edit_tag_ajax"} -> last.id \in DOMAIN last.pre.tag
      [] OTHER -> FALSE

(* C4: an edit of an existing User, Post or Tag whose input holds none of  *)
(* the recognized fields commits nothing and leaves the entity, a Post's   *)
(* updated_at and tag associations included, as it was.                    *)
C4_EmptyEditIsNoOp ==
    (Done(EditOps) /\ TargetExisted /\ NoRecognizedField)
        => last.commits = 0 /\ db = last.pre

ReferencesExist(d) ==
    \A r \in d.post_tag : r.post_id \in DOMAIN d.post /\ r.tag_id \in DOMAIN d.tag

(* C5: every PostTag row refers to a Post and a Tag that exist; a deletion *)
(* of a post or tag removes the rows that refer to it in the one commit    *)
(* that removes the row itself, and a tag's deletion leaves the posts.     *)
C5_AssociationsReferToRows ==
    /\ ReferencesExist(db)
    /\ (Done({"delete_post_form", "delete_post_ajax"}) /\ last.kind = "success") =>
          /\ last.commits = 1
          /\ last.id \notin DOMAIN db.post
          /\ \A r \in db.post_tag : r.post_id # last.id
    /\ (Done({"delete_tag_form", "delete_tag_ajax"}) /\ last.kind = "success") =>
          /\ last.commits = 1
          /\ last.id \notin DOMAIN db.tag
          /\ \A r \in db.post_tag : r.tag_id # last.id
          /\ db.post = last.pre.post

C5_Witness ==
    /\ Done({"delete_tag_form"})
    /\ last.kind = "success"
    /\ \E r \in last.pre.post_tag : r.tag_id = last.id
    /\ Cardinality(DOMAIN db.post) = 2

(* The other entrypoint of the same operation, on the same database, id    *)
(* and input.                                                              *)
form_of(data) ==
    [title |-> data["title"], content |-> data["content"],
     tag_keys |-> IF data["tags"] = None THEN <<>> ELSE data["tags"][1]]

Sibling ==
    LET d == last.pre
        id == last.id
        data == last.data
        t == last.at
    IN  CASE last.op = "new_user_form" -> {new_user_ajax(d, data)}
          [] last.op = "new_user_ajax" -> {new_user_form(d, data)}
          [] last.op = "edit_user_form" -> {edit_user_ajax(d, id, data)}
          [] last.op = "edit_user_ajax" -> {edit_user_form(d, id, data)}
          [] last.op = "delete_user_form" -> {delete_user_ajax(d, id)}
          [] last.op = "delete_user_ajax" -> {delete_user_form(d, id)}
          [] last.op = "new_post_form" -> {new_post_ajax(d, t, id, data)}
          [] last.op = "new_post_ajax" -> {new_post_form(d, t, id, form_of(data))}
          [] last.op = "edit_post_form" -> edit_post_ajax(d, t, id, data)
          [] last.op = "edit_post_ajax" -> edit_post_form(d, t, id, form_of(data))
          [] last.op = "delete_post_form" -> {delete_post_ajax(d, id)}
          [] last.op = "delete_post_ajax" -> {delete_post_form(d, id)}
          [] last.op = "new_tag_form" -> {new_tag_ajax(d, data)}
          [] last.op = "new_tag_ajax" -> {new_tag_form(d, data)}
          [] last.op = "edit_tag_form" -> {edit_tag_ajax(d, id, data)}
          [] last.op = "edit_tag_ajax" -> {edit_tag_form(d, id, data)}
          [] last.op = "delete_tag_form" -> {delete_tag_ajax(d, id)}
          [] last.op = "delete_tag_ajax" -> {delete_tag_form(d, id)}

(* C6: the form entrypoint and the JSON entrypoint of an operation leave   *)
(* the same database and answer in the same class, from every database    *)
(* and for every id and input.                                             *)
C6_EntrypointsAgree ==
    pc = "done" => \E r \in Sibling : r.db = db /\ r.kind = last.kind

(* C7: when a new_post is committed, the database never holds its Post row *)
(* without every tag association the request asked for.                    *)
C7_NewPostIsAtomic ==
    (inflight # None /\ inflight[1].post_id \in DOMAIN db.post) =>
        \A t \in SeqSet(inflight[1].tags) :
            PostTag(inflight[1].post_id, t) \in db.post_tag

IsWhitespace(s) == \A i \in DOMAIN s : s[i] \in Whitespace

(* r is s without its leading and trailing whitespace.                     *)
Trimmed(s, r) ==
    /\ r # EmptyStr
    /\ r[1] \notin Whitespace
    /\ r[Len(r)] \notin Whitespace
    /\ \E i \in 0..Len(s) :
          /\ i + Len(r) <= Len(s)
          /\ r = SubSeq(s, i + 1, i + Len(r))
          /\ IsWhitespace(SubSeq(s, 1, i))
          /\ IsWhitespace(SubSeq(s, i + Len(r) + 1, Len(s)))

(* C8: a present value with a non-whitespace character is returned trimmed *)
(* and nothing is appended; a present empty or all-whitespace value        *)
(* appends one non-whitespace error and returns None, optional or not; an  *)
(* absent key returns None and appends one missing-parameter error unless  *)
(* optional; the errors already listed stay in place.                      *)
C8_CheckForAndStripStrparam ==
    chk.called =>
        LET v == chk.mapping[chk.key] IN
        IF v = None
        THEN /\ chk.rv = None
             /\ chk.errors = IF chk.optional THEN chk.errors_in
                             ELSE Append(chk.errors_in, missing_parameter(chk.key))
        ELSE IF IsWhitespace(v[1])
        THEN /\ chk.rv = None
             /\ chk.errors =
                    Append(chk.errors_in, requires_nonwhitespace_chars(chk.key))
        ELSE /\ chk.rv # None
             /\ Trimmed(v[1], chk.rv[1])
             /\ chk.errors = chk.errors_in

C8_Witness ==
    /\ chk.called
    /\ chk.optional
    /\ chk.mapping[chk.key] = Some(<<" ", "\t">>)
    /\ chk.errors_in # <<>>
    /\ chk.rv = None
    /\ Len(chk.errors) = Len(chk.errors_in) + 1

InvalidListed == {t \in ListedTags : t \notin DOMAIN last.pre.tag}

(* C9: new_post for an existing user with a tag list holding an id of no   *)
(* existing tag is answered 400, lists one Invalid tag ID error for every  *)
(* invalid id, none for a valid one, next to the errors of the fields, and *)
(* creates neither a Post row nor a PostTag row.                           *)
C9_NewPostReportsEveryInvalidTag ==
    (Done(NewPostOps) /\ last.id \in DOMAIN last.pre.user /\ InvalidListed # {}) =>
        /\ last.kind = "invalid"
        /\ db = last.pre
        /\ \A t \in ListedTags :
              Count(last.errors, invalid_tag_id(t)) = IF t \in InvalidListed THEN 1 ELSE 0
        /\ \A k \in {"title", "content"} :
              Count(last.errors, ErrorFor(last.data[k], k)) =
                  IF Offending(last.data[k]) THEN 1 ELSE 0
        /\ Len(last.errors) =
              Cardinality(InvalidListed)
              + Cardinality({k \in {"title", "content"} : Offending(last.data[k])})

C9_Witness ==
    /\ Done(NewPostOps)
    /\ last.id \in DOMAIN last.pre.user
    /\ last.data["tags"] = Some(<<1, 2>>)
    /\ 1 \in DOMAIN last.pre.tag
    /\ 2 \notin DOMAIN last.pre.tag
    /\ ~Offending(last.data["title"])
    /\ ~Offending(last.data["content"])
    /\ last.kind = "invalid"
    /\ last.errors = <<invalid_tag_id(2)>>

EditUserOps == {"edit_user_form", "edit_user_ajax"}

(* The field of the request is present, valid and differs from the value   *)
(* the user row held for that same field.                                  *)
FieldDiffers(k) ==
    /\ ~Offending(last.data[k])
    /\ strip(last.data[k][1]) # last.pre.user[last.id][k]

(* C10: edit_user writes a field, and commits, only when the field is      *)
(* present, valid and differs from the stored value of that same field,    *)
(* image_url as first_name and last_name: a different image_url is         *)
(* persisted, an equal one causes no write and no commit.                  *)
C10_EditUserWritesChangedFields ==
    (Done(EditUserOps) /\ last.kind = "success") =>
        /\ \A k \in {"first_name", "last_name", "image_url"} :
              FieldDiffers(k) => db.user[last.id][k] = strip(last.data[k][1])
        /\ last.commits > 0 =>
              \E k \in {"first_name", "last_name", "image_url"} : FieldDiffers(k)

EditTagOps == {"edit_tag_ajax"}

(* C11: edit_tag on an existing tag with a present, non-blank name returns *)
(* 200 with no error, and leaves the tag named by the trimmed input, with  *)
(* every other tag, post and association row unchanged.                    *)
C11_EditTagRenamesTag ==
    (/\ Done(EditTagOps)
     /\ last.id \in DOMAIN last.pre.tag
     /\ ~Offending(last.data["name"]))
        => /\ last.kind = "success"
           /\ last.errors = <<>>
           /\ db = [last.pre EXCEPT
                        !.tag[last.id] = Tag(strip(last.data["name"][1]))]

(* The PostTag rows of post q in database d.                               *)
RowsOf(d, q) == {r \in d.post_tag : r.post_id = q}

(* Before the edit of post p, post q shares a tag with p, or holds a tag   *)
(* that the edit adds to p or removes from p.                              *)
TagsOverlap(p, q) ==
    LET mine == post_tags(last.pre.post_tag, p)
        theirs == post_tags(last.pre.post_tag, q)
        added == ListedTags \ mine
        removed == mine \ ListedTags
    IN  theirs \cap (mine \cup added \cup removed) # {}

(* C12: edit_post(p, data) adds and removes only PostTag rows of post p:   *)
(* every other post q that shares a tag with p, or holds a tag the edit    *)
(* adds to or removes from p, has the same PostTag rows before and after.  *)
C12_EditPostKeepsOtherPostsRows ==
    (Done(EditPostOps) /\ last.id \in DOMAIN last.pre.post) =>
        \A q \in DOMAIN last.pre.post \ {last.id} :
            TagsOverlap(last.id, q) => RowsOf(db, q) = RowsOf(last.pre, q)

====
